---------------------------- MODULE Spec2Model ----------------------------
(***************************************************************************)
(* A model of spacex_meshtastic.py: the one-shot pipeline                  *)
(*   load_config -> get_next_vandenberg_launch -> format_launch_message    *)
(*   -> send_to_meshtastic                                                 *)
(* Python strings are sequences of one-character strings (one element per  *)
(* code point), so that len(), slicing, lower(), `in` and join are         *)
(* computed and not assumed.                                               *)
(***************************************************************************)
EXTENDS Integers, Sequences, FiniteSets, TLC

VARIABLES
    pc,           \* position of the run inside main / send_to_meshtastic
    env,          \* the environment variables read by load_config
    config,       \* the dict returned by load_config
    response,     \* what requests.get produced for this run
    launch_info,  \* the value returned by get_next_vandenberg_launch
    message,      \* the message variable of main, then of send_to_meshtastic
    printed,      \* the message printed by the test-mode block
    interface,    \* the interface variable of send_to_meshtastic
    trace,        \* the calls made on the meshtastic library, in order
    result,       \* the value send_to_meshtastic is returning
    exit_code,    \* the value main returned
    fault,        \* the stage whose exception left the process uncaught
    unit_in,      \* argument of a direct call of a helper function
    unit_out      \* value returned by that direct call

vars == <<pc, env, config, response, launch_info, message, printed, interface,
          trace, result, exit_code, fault, unit_in, unit_out>>

(***************************************************************************)
(* Bounds of the model.                                                    *)
(***************************************************************************)
MaxLaunches == 2
MaxPayloads == 3

(***************************************************************************)
(* Strings.                                                                *)
(***************************************************************************)
UpperChars == <<"A","B","C","D","E","F","G","H","I","J","K","L","M",
                "N","O","P","Q","R","S","T","U","V","W","X","Y","Z">>
LowerChars == <<"a","b","c","d","e","f","g","h","i","j","k","l","m",
                "n","o","p","q","r","s","t","u","v","w","x","y","z">>
DigitChars == <<"0","1","2","3","4","5","6","7","8","9">>

\* str.lower()
lower(s) ==
    [i \in 1..Len(s) |->
        IF \E k \in 1..26 : UpperChars[k] = s[i]
        THEN LowerChars[CHOOSE k \in 1..26 : UpperChars[k] = s[i]]
        ELSE s[i]]

\* keyword in s
contains(s, keyword) ==
    \E i \in 0..(Len(s) - Len(keyword)) :
        SubSeq(s, i + 1, i + Len(keyword)) = keyword

\* str.replace(old, new) for a one-character old
RECURSIVE replace(_, _, _)
replace(s, old, new) ==
    IF s = <<>> THEN <<>>
    ELSE (IF Head(s) = old THEN new ELSE <<Head(s)>>) \o replace(Tail(s), old, new)

\* sep.join(parts)
RECURSIVE join(_, _)
join(sep, parts) ==
    IF parts = <<>> THEN <<>>
    ELSE IF Len(parts) = 1 THEN parts[1]
    ELSE parts[1] \o sep \o join(sep, Tail(parts))

IsDigit(c) == \E k \in 1..10 : DigitChars[k] = c
DigitVal(c) == (CHOOSE k \in 1..10 : DigitChars[k] = c) - 1
AllDigits(s) == s # <<>> /\ \A i \in 1..Len(s) : IsDigit(s[i])

RECURSIVE DecVal(_)
DecVal(s) == IF s = <<>> THEN 0 ELSE 10 * DecVal(SubSeq(s, 1, Len(s) - 1)) + DigitVal(s[Len(s)])

\* n rendered with at least two digits (%d, %I, %M of strftime; %Y for 4 digits)
TwoDigits(n) == <<DigitChars[(n \div 10) + 1], DigitChars[(n % 10) + 1]>>
FourDigits(n) == TwoDigits(n \div 100) \o TwoDigits(n % 100)

(***************************************************************************)
(* String literals of the program.                                         *)
(***************************************************************************)
vandenberg_keywords ==
    << <<"v","a","n","d","e","n","b","e","r","g">>,
       <<"v","s","f","b">>,
       <<"s","l","c","-","4">>,
       <<"s","l","c","-","3">>  >>
StrUnknownMission == <<"U","n","k","n","o","w","n"," ","M","i","s","s","i","o","n">>
StrVandenberg == <<"V","a","n","d","e","n","b","e","r","g">>
StrUnknown == <<"U","n","k","n","o","w","n">>
StrNoPayload == <<"N","o"," ","p","a","y","l","o","a","d"," ","i","n","f","o","r","m","a","t","i","o","n">>
StrNoLaunches == <<"N","o"," ","u","p","c","o","m","i","n","g"," ","V","a","n","d","e","n","b","e","r","g"," ","l","a","u","n","c","h","e","s"," ","f","o","u","n","d",".">>
StrTitle == <<"N","e","x","t"," ","V","a","n","d","e","n","b","e","r","g"," ","L","a","u","n","c","h",":","\n">>
StrNone == <<"N","o","n","e">>
StrSerial == <<"s","e","r","i","a","l">>
StrTcp == <<"t","c","p">>
StrCOM3 == <<"C","O","M","3">>
StrDefaultHost == <<"1","9","2",".","1","6","8",".","1",".","1","0","0">>
StrTrue == <<"t","r","u","e">>
StrZero == <<"0">>
StrUtcOffset == <<"+","0","0",":","0","0">>
StrEllipsis == <<".",".",".">>
MAX_MESSAGE_LENGTH == 200

(***************************************************************************)
(* JSON values of the API response.  A field of an object is missing, null *)
(* or present; every record keeps the same fields so that values compare.  *)
(***************************************************************************)
JStr(s) == [tag |-> "str", s |-> s]
JNull == [tag |-> "null", s |-> <<>>]
JMissing == [tag |-> "missing", s |-> <<>>]

\* d.get(key, default): the default only when the key is missing; a null is None
Get(field, default) == IF field.tag = "missing" THEN default ELSE field

\* truth value of a Python str-or-None
Truthy(v) == v.tag = "str" /\ v.s # <<>>

JLocation(tag, name) == [tag |-> tag, name |-> name]
JPad(tag, name, location) == [tag |-> tag, name |-> name, location |-> location]
JMission(tag, name, type) == [tag |-> tag, name |-> name, type |-> type]
JConfiguration(tag, name) == [tag |-> tag, name |-> name]
JRocket(tag, configuration) == [tag |-> tag, configuration |-> configuration]
JLaunch(pad, mission, rocket, net, name) ==
    [pad |-> pad, mission |-> mission, rocket |-> rocket, net |-> net, name |-> name]

(***************************************************************************)
(* get_next_vandenberg_launch                                              *)
(***************************************************************************)
NoneInfo ==
    [tag |-> "None", name |-> JNull, date_utc |-> JNull, payload_names |-> <<>>,
     launchpad_name |-> JNull, mission_type |-> JNull]

Return(value) == [kind |-> "return", exc |-> "", value |-> value]
Raise(exc) == [kind |-> "raise", exc |-> exc, value |-> NoneInfo]

\* all() written for any()
AnyKeywordIn_All(name) ==
    \A k \in 1..Len(vandenberg_keywords) : contains(name, vandenberg_keywords[k])

\* any(keyword in name for keyword in vandenberg_keywords)
AnyKeywordIn(name) ==
    \E k \in 1..Len(vandenberg_keywords) : contains(name, vandenberg_keywords[k])

\* lines 74-86: payload_names of the launch being returned; mission is not None
PayloadNames(launch, mission) ==
    LET mission_name == Get(mission.name, JStr(<<>>)) IN
    IF Truthy(mission_name) THEN Return(<<mission_name.s>>)
    ELSE LET rocket == launch.rocket IN
         IF rocket.tag = "null" THEN Raise("AttributeError")
         ELSE IF rocket.configuration.tag = "null" THEN Raise("AttributeError")
         ELSE LET rocket_name == Get(rocket.configuration.name, JStr(<<>>)) IN
              IF Truthy(rocket_name) THEN Return(<<rocket_name.s>>) ELSE Return(<<>>)

\* lines 74-95: the dict built from the first match
BuildRecord(launch, pad) ==
    LET mission == launch.mission IN
    IF mission.tag = "null" THEN Raise("AttributeError")
    ELSE LET payload == PayloadNames(launch, mission) IN
         IF payload.kind = "raise" THEN payload
         ELSE Return([tag |-> "dict",
                      name |-> Get(launch.name, JStr(StrUnknownMission)),
                      date_utc |-> Get(launch.net, JStr(<<>>)),
                      payload_names |-> payload.value,
                      launchpad_name |-> Get(pad.name, JStr(StrVandenberg)),
                      mission_type |-> Get(mission.type, JStr(StrUnknown))])

\* lines 61-98: the for loop over launches, from index i on
RECURSIVE ScanLaunches(_, _, _)
ScanLaunches(launches, i, vandenberg_count) ==
    IF i > Len(launches) THEN Return(NoneInfo)
    ELSE LET launch == launches[i]
             pad == launch.pad
         IN
         IF pad.tag = "null" THEN Raise("AttributeError")
         ELSE LET pad_name == Get(pad.name, JStr(<<>>)) IN
         IF pad_name.tag = "null" THEN Raise("AttributeError")
         ELSE IF pad.location.tag = "null" THEN Raise("AttributeError")
         ELSE LET location_name == Get(pad.location.name, JStr(<<>>)) IN
         IF location_name.tag = "null" THEN Raise("AttributeError")
         ELSE IF AnyKeywordIn(lower(pad_name.s)) \/ AnyKeywordIn(lower(location_name.s))
              THEN IF vandenberg_count + 1 = 1
                   THEN BuildRecord(launch, pad)
                   ELSE ScanLaunches(launches, i + 1, vandenberg_count + 1)
              ELSE ScanLaunches(launches, i + 1, vandenberg_count)

\* lines 51-98: the body of the try block.  requests.get raises Timeout,
\* raise_for_status raises HTTPError, response.json() raises
\* requests.exceptions.JSONDecodeError on a body that is not JSON; a JSON
\* body that is not an object has no get (line 54), and a null results has
\* no len (line 55).
FetchBody(resp) ==
    IF resp.status = "timeout" THEN Raise("Timeout")
    ELSE IF resp.status = "http_error" THEN Raise("HTTPError")
    ELSE IF resp.body = "not_json" THEN Raise("JSONDecodeError")
    ELSE IF resp.body = "array" THEN Raise("AttributeError")
    ELSE IF resp.results.tag = "null" THEN Raise("TypeError")
    ELSE ScanLaunches(Get(resp.results, [tag |-> "list", items |-> <<>>]).items, 1, 0)

\* the subclasses of requests.exceptions.RequestException among the exceptions
RequestExceptions == {"Timeout", "HTTPError", "JSONDecodeError"}

\* lines 39-102: try ... except requests.exceptions.RequestException
get_next_vandenberg_launch(resp) ==
    LET r == FetchBody(resp) IN
    IF r.kind = "raise" /\ r.exc \in RequestExceptions THEN Return(NoneInfo) ELSE r

(***************************************************************************)
(* format_launch_message                                                   *)
(***************************************************************************)
IsLeap(y) == (y % 4 = 0 /\ y % 100 # 0) \/ y % 400 = 0
DaysInMonth(y, m) ==
    IF m = 2 THEN (IF IsLeap(y) THEN 29 ELSE 28)
    ELSE IF m \in {4, 6, 9, 11} THEN 30 ELSE 31

MonthAbbr ==
    << <<"J","a","n">>, <<"F","e","b">>, <<"M","a","r">>, <<"A","p","r">>,
       <<"M","a","y">>, <<"J","u","n">>, <<"J","u","l">>, <<"A","u","g">>,
       <<"S","e","p">>, <<"O","c","t">>, <<"N","o","v">>, <<"D","e","c">> >>

\* datetime.fromisoformat on YYYY-MM-DD?HH:MM:SS(+|-)HH:MM, the shape the API's
\* timestamps have once their Z is replaced; any other text of the inputs
\* enumerated below ("", "TBD") is a ValueError.  minute counts the minutes
\* of the day; offset is the UTC offset in minutes.
fromisoformat(s) ==
    IF /\ Len(s) = 25
       /\ s[5] = "-" /\ s[8] = "-" /\ s[14] = ":" /\ s[17] = ":" /\ s[23] = ":"
       /\ s[20] \in {"+", "-"}
       /\ \A i \in {1,2,3,4,6,7,9,10,12,13,15,16,18,19,21,22,24,25} : IsDigit(s[i])
    THEN LET y == DecVal(SubSeq(s, 1, 4))
             m == DecVal(SubSeq(s, 6, 7))
             d == DecVal(SubSeq(s, 9, 10))
             hh == DecVal(SubSeq(s, 12, 13))
             mi == DecVal(SubSeq(s, 15, 16))
             ss == DecVal(SubSeq(s, 18, 19))
             oh == DecVal(SubSeq(s, 21, 22))
             om == DecVal(SubSeq(s, 24, 25))
         IN IF /\ y >= 1 /\ m \in 1..12 /\ d >= 1 /\ d <= DaysInMonth(y, m)
               /\ hh <= 23 /\ mi <= 59 /\ ss <= 59 /\ oh <= 23 /\ om <= 59
            THEN [kind |-> "return", exc |-> "",
                  value |-> [year |-> y, month |-> m, day |-> d,
                             minute |-> hh * 60 + mi,
                             offset |-> (IF s[20] = "-" THEN -1 ELSE 1) * (oh * 60 + om)]]
            ELSE [kind |-> "raise", exc |-> "ValueError", value |-> <<>>]
    ELSE [kind |-> "raise", exc |-> "ValueError", value |-> <<>>]

\* the UTC offset of America/Phoenix, in minutes (MST all year)
PhoenixOffset == -420

\* the calendar date and minute of day brought back into 0..1439
RECURSIVE NormalizeDay(_)
NormalizeDay(t) ==
    IF t.minute < 0
    THEN NormalizeDay(
           IF t.day > 1 THEN [t EXCEPT !.minute = @ + 1440, !.day = @ - 1]
           ELSE IF t.month > 1
           THEN [t EXCEPT !.minute = @ + 1440, !.month = @ - 1,
                          !.day = DaysInMonth(t.year, t.month - 1)]
           ELSE [t EXCEPT !.minute = @ + 1440, !.year = @ - 1, !.month = 12, !.day = 31])
    ELSE IF t.minute >= 1440
    THEN NormalizeDay(
           IF t.day < DaysInMonth(t.year, t.month)
           THEN [t EXCEPT !.minute = @ - 1440, !.day = @ + 1]
           ELSE IF t.month < 12
           THEN [t EXCEPT !.minute = @ - 1440, !.month = @ + 1, !.day = 1]
           ELSE [t EXCEPT !.minute = @ - 1440, !.year = @ + 1, !.month = 1, !.day = 1])
    ELSE t

\* utc_time.astimezone(az_tz)
astimezone(t) ==
    NormalizeDay([t EXCEPT !.minute = @ - t.offset + PhoenixOffset, !.offset = PhoenixOffset])

\* az_time.strftime('%b %d, %Y @ %I:%M %p')
strftime(t) ==
    LET hour == t.minute \div 60
        hour12 == IF hour % 12 = 0 THEN 12 ELSE hour % 12
    IN MonthAbbr[t.month] \o <<" ">> \o TwoDigits(t.day) \o <<",", " ">>
       \o FourDigits(t.year) \o <<" ", "@", " ">>
       \o TwoDigits(hour12) \o <<":">> \o TwoDigits(t.minute % 60)
       \o <<" ">> \o (IF hour < 12 THEN <<"A","M">> ELSE <<"P","M">>)

\* the separator without its space
get_payload_info_Comma(payload_names) ==
    IF payload_names = <<>> THEN StrNoPayload
    ELSE join(<<",">>, payload_names)

get_payload_info(payload_names) ==
    IF payload_names = <<>> THEN StrNoPayload
    ELSE join(<<",", " ">>, payload_names)

\* str() of a value placed in an f-string
FStr(v) == IF v.tag = "str" THEN v.s ELSE StrNone

\* the three emoji of the template, one code point each
Rocket == "<U+1F680>"
Calendar == "<U+1F4C5>"
Package == "<U+1F4E6>"

format_launch_message(info) ==
    IF info.tag = "None" THEN Return(StrNoLaunches)
    ELSE IF info.date_utc.tag # "str" THEN Raise("AttributeError")
    ELSE LET utc_time == fromisoformat(replace(info.date_utc.s, "Z", StrUtcOffset)) IN
         IF utc_time.kind = "raise" THEN Raise(utc_time.exc)
         ELSE LET az_time == astimezone(utc_time.value)
                  payload_info == get_payload_info(info.payload_names)
              IN Return(StrTitle
                        \o <<Rocket, " ">> \o FStr(info.name) \o <<"\n">>
                        \o <<Calendar, " ">> \o strftime(az_time) \o <<" ", "A", "Z", "\n">>
                        \o <<Package, " ">> \o payload_info)

(***************************************************************************)
(* load_config                                                             *)
(***************************************************************************)
EnvUnset == [set |-> FALSE, s |-> <<>>]
EnvSet(s) == [set |-> TRUE, s |-> s]

\* os.getenv(name, default)
getenv(var, default) == IF var.set THEN var.s ELSE default

\* int(text) for the texts enumerated below: decimal digits, or a ValueError
ParseInt(s) ==
    IF AllDigits(s) THEN [kind |-> "return", exc |-> "", value |-> DecVal(s)]
    ELSE [kind |-> "raise", exc |-> "ValueError", value |-> 0]

NoConfig ==
    [connection_type |-> <<>>, serial_port |-> <<>>, tcp_host |-> <<>>,
     channel |-> 0, send_enabled |-> FALSE]

load_config(e) ==
    LET channel == ParseInt(getenv(e.MESHTASTIC_CHANNEL, StrZero)) IN
    IF channel.kind = "raise"
    THEN [kind |-> "raise", exc |-> channel.exc, value |-> NoConfig]
    ELSE [kind |-> "return", exc |-> "",
          value |-> [connection_type |-> lower(getenv(e.MESHTASTIC_CONNECTION_TYPE, StrSerial)),
                     serial_port |-> getenv(e.MESHTASTIC_SERIAL_PORT, StrCOM3),
                     tcp_host |-> getenv(e.MESHTASTIC_TCP_HOST, StrDefaultHost),
                     channel |-> channel.value,
                     send_enabled |-> lower(getenv(e.MESHTASTIC_SEND_ENABLED, StrTrue)) = StrTrue]]

(***************************************************************************)
(* send_to_meshtastic, lines 139-143                                       *)
(***************************************************************************)
\* the cut made at the limit, leaving no room for the ellipsis
Truncate_AtLimit(msg) ==
    IF Len(msg) > MAX_MESSAGE_LENGTH
    THEN SubSeq(msg, 1, MAX_MESSAGE_LENGTH) \o StrEllipsis
    ELSE msg

Truncate(msg) ==
    IF Len(msg) > MAX_MESSAGE_LENGTH
    THEN SubSeq(msg, 1, MAX_MESSAGE_LENGTH - 3) \o StrEllipsis
    ELSE msg

\* the test of send_enabled inverted
TestMode_Inverted(cfg) == cfg.send_enabled

\* line 146: the test-mode branch is taken
TestMode(cfg) == ~cfg.send_enabled

\* the comparison made with the upper-case name
InterfaceKind_UpperCase(cfg) ==
    IF cfg.connection_type = <<"T","C","P">> THEN "TCPInterface" ELSE "SerialInterface"

\* line 163: which interface class is constructed
InterfaceKind(cfg) == IF cfg.connection_type = StrTcp THEN "TCPInterface" ELSE "SerialInterface"

\* lines 165, 168: the hostname / devPath argument
InterfaceTarget(cfg) == IF cfg.connection_type = StrTcp THEN cfg.tcp_host ELSE cfg.serial_port

\* the test of the finally block inverted
MustClose_Inverted(iface) == iface = "None"

\* line 182: the finally block closes the interface
MustClose(iface) == iface # "None"

\* the two exit codes exchanged
ExitCode_Swapped(success) == IF success THEN 1 ELSE 0

\* line 221
ExitCode(success) == IF success THEN 0 ELSE 1

\* one call made on the meshtastic library
Call(op, kind, target, text, channel, ok) ==
    [op |-> op, kind |-> kind, target |-> target, text |-> text,
     channel |-> channel, ok |-> ok]

(***************************************************************************)
(* The inputs of a run.                                                    *)
(***************************************************************************)
Filler(n) == [i \in 1..n |-> DigitChars[(i % 10) + 1]]

StrStarlink == <<"S","t","a","r","l","i","n","k"," ","G","r","o","u","p"," ","9","-","1">>
StrFalcon9 == <<"F","a","l","c","o","n"," ","9">>
NetMarch == <<"2","0","2","4","-","0","3","-","1","5","T","1","8",":","3","0",":","0","0","Z">>
NetNewYear == <<"2","0","2","4","-","0","1","-","0","1","T","0","3",":","0","0",":","0","0","Z">>
NetTBD == <<"T","B","D">>

LocMissing == JLocation("missing", JMissing)
PadVSFB ==
    JPad("obj", JStr(<<"S","L","C","-","4","E">>),
         JLocation("obj", JStr(<<"V","a","n","d","e","n","b","e","r","g"," ","S","F","B",","," ","C","A",","," ","U","S","A">>)))
PadCape40 ==
    JPad("obj", JStr(<<"S","L","C","-","4","0">>),
         JLocation("obj", JStr(<<"C","a","p","e"," ","C","a","n","a","v","e","r","a","l",","," ","F","L",","," ","U","S","A">>)))
PadKSC ==
    JPad("obj", JStr(<<"L","C","-","3","9","A">>),
         JLocation("obj", JStr(<<"K","e","n","n","e","d","y"," ","S","p","a","c","e"," ","C","e","n","t","e","r">>)))
PadLocOnly == JPad("obj", JMissing, JLocation("obj", JStr(<<"V","S","F","B">>)))
PadNull == JPad("null", JMissing, LocMissing)
PadLocNull == JPad("obj", JStr(<<"L","C","-","3","9","A">>), JLocation("null", JMissing))

MissionStarlink == JMission("obj", JStr(StrStarlink), JStr(<<"C","o","m","m","u","n","i","c","a","t","i","o","n","s">>))
MissionMissing == JMission("missing", JMissing, JMissing)
MissionNull == JMission("null", JMissing, JMissing)
MissionEmptyName == JMission("obj", JStr(<<>>), JMissing)
MissionNullName == JMission("obj", JNull, JMissing)

RocketF9 == JRocket("obj", JConfiguration("obj", JStr(StrFalcon9)))
RocketMissing == JRocket("missing", JConfiguration("missing", JMissing))
RocketNull == JRocket("null", JConfiguration("missing", JMissing))
RocketEmptyName == JRocket("obj", JConfiguration("obj", JStr(<<>>)))

\* The launches a response is made of.  The long names make messages of
\* exactly MAX_MESSAGE_LENGTH characters, of one character more, and of 240.
LaunchPool ==
    { JLaunch(PadVSFB, MissionStarlink, RocketF9, JStr(NetMarch), JStr(StrStarlink)),
      JLaunch(PadCape40, MissionMissing, RocketF9, JStr(NetNewYear), JStr(Filler(135))),
      JLaunch(PadKSC, MissionStarlink, RocketF9, JStr(NetMarch), JStr(StrStarlink)),
      JLaunch(PadLocOnly, MissionEmptyName, RocketEmptyName, JStr(NetTBD), JMissing),
      JLaunch(PadNull, MissionStarlink, RocketF9, JStr(NetMarch), JStr(StrStarlink)),
      JLaunch(PadVSFB, MissionNull, RocketF9, JStr(NetMarch), JStr(StrStarlink)),
      JLaunch(PadVSFB, MissionNullName, RocketNull, JStr(NetMarch), JStr(StrStarlink)),
      JLaunch(PadLocNull, MissionStarlink, RocketF9, JStr(NetMarch), JStr(StrStarlink)),
      JLaunch(PadVSFB, MissionStarlink, RocketF9, JNull, JNull),
      JLaunch(PadVSFB, MissionStarlink, RocketF9, JStr(NetMarch), JStr(Filler(124))),
      JLaunch(PadVSFB, MissionNullName, RocketMissing, JStr(NetMarch), JMissing),
      JLaunch(PadLocOnly, MissionEmptyName, RocketEmptyName, JStr(NetNewYear), JStr(Filler(160))) }

LaunchLists == UNION { [1..n -> LaunchPool] : n \in 0..MaxLaunches }

Resp(status, body, results) == [status |-> status, body |-> body, results |-> results]
NoResults == [tag |-> "missing", items |-> <<>>]
Responses ==
    { Resp("timeout", "none", NoResults), Resp("http_error", "none", NoResults),
      Resp("ok", "not_json", NoResults), Resp("ok", "array", NoResults),
      Resp("ok", "object", NoResults),
      Resp("ok", "object", [tag |-> "null", items |-> <<>>]) }
    \cup { Resp("ok", "object", [tag |-> "list", items |-> l]) : l \in LaunchLists }

Envs ==
    [ MESHTASTIC_CONNECTION_TYPE : {EnvUnset, EnvSet(<<"T","C","P">>)},
      MESHTASTIC_SERIAL_PORT : {EnvUnset},
      MESHTASTIC_TCP_HOST : {EnvUnset, EnvSet(<<"m","e","s","h",".","l","a","n">>)},
      MESHTASTIC_CHANNEL : {EnvUnset, EnvSet(<<"1">>), EnvSet(<<"a","b","c">>)},
      MESHTASTIC_SEND_ENABLED : {EnvUnset, EnvSet(<<"F","a","l","s","e">>)} ]

NoEnv ==
    [ MESHTASTIC_CONNECTION_TYPE |-> EnvUnset, MESHTASTIC_SERIAL_PORT |-> EnvUnset,
      MESHTASTIC_TCP_HOST |-> EnvUnset, MESHTASTIC_CHANNEL |-> EnvUnset,
      MESHTASTIC_SEND_ENABLED |-> EnvUnset ]
NoResponse == Resp("none", "none", NoResults)

(***************************************************************************)
(* The run of main.                                                        *)
(***************************************************************************)
Init ==
    /\ pc = "start"
    /\ env = NoEnv
    /\ config = NoConfig
    /\ response = NoResponse
    /\ launch_info = NoneInfo
    /\ message = <<>>
    /\ printed = <<>>
    /\ interface = "None"
    /\ trace = <<>>
    /\ result = "unset"
    /\ exit_code = -1
    /\ fault = "none"
    /\ unit_in = <<>>
    /\ unit_out = <<>>

\* line 200
LoadConfig ==
    /\ pc = "start"
    /\ \E e \in Envs :
         LET r == load_config(e) IN
         /\ env' = e
         /\ IF r.kind = "raise"
            THEN /\ pc' = "crashed"
                 /\ fault' = "load_config"
                 /\ config' = config
            ELSE /\ pc' = "config"
                 /\ fault' = fault
                 /\ config' = r.value
    /\ UNCHANGED <<response, launch_info, message, printed, interface, trace,
                   result, exit_code, unit_in, unit_out>>

\* line 206
Fetch ==
    /\ pc = "config"
    /\ \E resp \in Responses :
         LET r == get_next_vandenberg_launch(resp) IN
         /\ response' = resp
         /\ IF r.kind = "raise"
            THEN /\ pc' = "crashed"
                 /\ fault' = "fetch"
                 /\ launch_info' = launch_info
            ELSE /\ pc' = "fetched"
                 /\ fault' = fault
                 /\ launch_info' = r.value
    /\ UNCHANGED <<env, config, message, printed, interface, trace, result,
                   exit_code, unit_in, unit_out>>

\* the absence of a launch reported as an error
NoLaunch_AsError ==
    /\ pc = "fetched"
    /\ launch_info.tag = "None"
    /\ exit_code' = 1
    /\ pc' = "done"
    /\ UNCHANGED <<env, config, response, launch_info, message, printed, interface,
                   trace, result, fault, unit_in, unit_out>>

\* lines 208-210: `not launch_info` is true of None only, the dict has five keys
NoLaunch ==
    /\ pc = "fetched"
    /\ launch_info.tag = "None"
    /\ exit_code' = 0
    /\ pc' = "done"
    /\ UNCHANGED <<env, config, response, launch_info, message, printed, interface,
                   trace, result, fault, unit_in, unit_out>>

\* line 213
Format ==
    /\ pc = "fetched"
    /\ launch_info.tag # "None"
    /\ LET r == format_launch_message(launch_info) IN
       IF r.kind = "raise"
       THEN /\ pc' = "crashed"
            /\ fault' = "format"
            /\ message' = message
       ELSE /\ pc' = "send"
            /\ fault' = fault
            /\ message' = r.value
    /\ UNCHANGED <<env, config, response, launch_info, printed, interface, trace,
                   result, exit_code, unit_in, unit_out>>

\* lines 139-159: truncation, then the test-mode block or the way to the try
SendBegin ==
    /\ pc = "send"
    /\ message' = Truncate(message)
    /\ IF TestMode(config)
       THEN /\ printed' = message'
            /\ result' = "True"
            /\ exit_code' = ExitCode(TRUE)
            /\ pc' = "done"
       ELSE /\ printed' = printed
            /\ result' = result
            /\ exit_code' = exit_code
            /\ pc' = "connect"
    /\ UNCHANGED <<env, config, response, launch_info, interface, trace, fault,
                   unit_in, unit_out>>

\* lines 161-168 (and 177-179 when the constructor raises).  The constructor
\* either returns an open interface or raises and leaves interface None.
Connect ==
    /\ pc = "connect"
    /\ \E ok \in BOOLEAN :
         /\ trace' = Append(trace, Call("connect", InterfaceKind(config),
                                        InterfaceTarget(config), <<>>, 0, ok))
         /\ IF ok
            THEN /\ interface' = InterfaceKind(config)
                 /\ result' = result
                 /\ pc' = "sendText"
            ELSE /\ interface' = interface
                 /\ result' = "False"
                 /\ pc' = "finally"
    /\ UNCHANGED <<env, config, response, launch_info, message, printed,
                   exit_code, fault, unit_in, unit_out>>

\* lines 171-179: sendText, then return True, or the except block's return False
SendText ==
    /\ pc = "sendText"
    /\ \E ok \in BOOLEAN :
         /\ trace' = Append(trace, Call("sendText", interface, <<>>, message,
                                        config.channel, ok))
         /\ result' = IF ok THEN "True" ELSE "False"
    /\ pc' = "finally"
    /\ UNCHANGED <<env, config, response, launch_info, message, printed, interface,
                   exit_code, fault, unit_in, unit_out>>

\* lines 181-183, then line 221; an exception of close() replaces the return
Finally ==
    /\ pc = "finally"
    /\ IF MustClose(interface)
       THEN \E ok \in BOOLEAN :
              /\ trace' = Append(trace, Call("close", interface, <<>>, <<>>, 0, ok))
              /\ IF ok
                 THEN /\ exit_code' = ExitCode(result = "True")
                      /\ fault' = fault
                      /\ pc' = "done"
                 ELSE /\ exit_code' = exit_code
                      /\ fault' = "close"
                      /\ pc' = "crashed"
       ELSE /\ trace' = trace
            /\ exit_code' = ExitCode(result = "True")
            /\ fault' = fault
            /\ pc' = "done"
    /\ UNCHANGED <<env, config, response, launch_info, message, printed, interface,
                   result, unit_in, unit_out>>

Next ==
    \/ LoadConfig
    \/ Fetch
    \/ NoLaunch
    \/ Format
    \/ SendBegin
    \/ Connect
    \/ SendText
    \/ Finally

Spec == Init /\ [][Next]_vars

(***************************************************************************)
(* The helper functions called directly, on arguments main never passes.   *)
(***************************************************************************)
PayloadPool ==
    { StrStarlink, StrFalcon9, <<"N","R","O","L","-","1","6","7">>,
      <<"T","r","a","n","s","p","o","r","t","e","r"," ","1","2">> }
PayloadLists == UNION { [1..n -> PayloadPool] : n \in 0..MaxPayloads }

\* None, and the records get_next_vandenberg_launch builds from the pool
UnitInfos ==
    {NoneInfo} \cup
    { get_next_vandenberg_launch(Resp("ok", "object", [tag |-> "list", items |-> <<l>>])).value :
        l \in { x \in LaunchPool :
                 get_next_vandenberg_launch(
                   Resp("ok", "object", [tag |-> "list", items |-> <<x>>])).kind = "return" } }

InitUnits ==
    \/ Init
    \/ /\ pc = "call_get_payload_info"
       /\ unit_in \in PayloadLists
       /\ env = NoEnv /\ config = NoConfig /\ response = NoResponse
       /\ launch_info = NoneInfo /\ message = <<>> /\ printed = <<>>
       /\ interface = "None" /\ trace = <<>> /\ result = "unset"
       /\ exit_code = -1 /\ fault = "none" /\ unit_out = <<>>
    \/ /\ pc = "call_format_launch_message"
       /\ unit_in \in UnitInfos
       /\ env = NoEnv /\ config = NoConfig /\ response = NoResponse
       /\ launch_info = NoneInfo /\ message = <<>> /\ printed = <<>>
       /\ interface = "None" /\ trace = <<>> /\ result = "unset"
       /\ exit_code = -1 /\ fault = "none" /\ unit_out = <<>>

CallGetPayloadInfo ==
    /\ pc = "call_get_payload_info"
    /\ unit_out' = get_payload_info(unit_in)
    /\ pc' = "returned_get_payload_info"
    /\ UNCHANGED <<env, config, response, launch_info, message, printed, interface,
                   trace, result, exit_code, fault, unit_in>>

CallFormatLaunchMessage ==
    /\ pc = "call_format_launch_message"
    /\ unit_out' = format_launch_message(unit_in)
    /\ pc' = "returned_format_launch_message"
    /\ UNCHANGED <<env, config, response, launch_info, message, printed, interface,
                   trace, result, exit_code, fault, unit_in>>

NextUnits == Next \/ CallGetPayloadInfo \/ CallFormatLaunchMessage

SpecUnits == InitUnits /\ [][NextUnits]_vars

(***************************************************************************)
(* Vocabulary of the properties.                                           *)
(***************************************************************************)
Calls(op) == { i \in 1..Len(trace) : trace[i].op = op }
Left == pc \in {"done", "crashed"}
ConfigLoaded == pc \notin {"start"} /\ fault # "load_config"
FetchReturned == pc \notin {"start", "config"} /\ fault \notin {"load_config", "fetch"}
\* send_to_meshtastic was entered and has been left
SendLeft == Left /\ FetchReturned /\ launch_info.tag = "dict" /\ fault # "format"
\* an exception was raised during connect or send
SendFailed == \E i \in 1..Len(trace) : trace[i].op \in {"connect", "sendText"} /\ ~trace[i].ok

\* keyword kw stands at offset a of text s, letter case apart
KeywordAt(s, kw, a) ==
    /\ a + Len(kw) <= Len(s)
    /\ \A j \in 1..Len(kw) :
         \/ s[a + j] = kw[j]
         \/ \E n \in 1..26 : UpperChars[n] = s[a + j] /\ LowerChars[n] = kw[j]
NamesSite(field) ==
    /\ field.tag = "str"
    /\ \E kw \in { <<"v","a","n","d","e","n","b","e","r","g">>, <<"v","s","f","b">>,
                   <<"s","l","c","-","4">>, <<"s","l","c","-","3">> } :
         \E a \in 0..Len(field.s) : KeywordAt(field.s, kw, a)
\* the result names the launch site in its pad name or its location name
SiteMatch(launch) == NamesSite(launch.pad.name) \/ NamesSite(launch.pad.location.name)
\* the pad and location names of the result can be read
SiteReadable(launch) ==
    /\ launch.pad.tag # "null" /\ launch.pad.name.tag # "null"
    /\ launch.pad.location.tag # "null" /\ launch.pad.location.name.tag # "null"
Items(resp) == resp.results.items
IsResultList(resp) == resp.status = "ok" /\ resp.body = "object" /\ resp.results.tag # "null"
FirstMatch(resp) ==
    IF \E i \in 1..Len(Items(resp)) : SiteMatch(Items(resp)[i])
    THEN CHOOSE i \in 1..Len(Items(resp)) :
           /\ SiteMatch(Items(resp)[i])
           /\ \A j \in 1..(i - 1) : ~SiteMatch(Items(resp)[j])
    ELSE 0
ZeroMatches(resp) ==
    /\ IsResultList(resp)
    /\ \A i \in 1..Len(Items(resp)) : SiteReadable(Items(resp)[i]) /\ ~SiteMatch(Items(resp)[i])

(***************************************************************************)
(* C1: once send_to_meshtastic is left, by a return or by an exception,    *)
(* close has been called on every interface a constructor returned.        *)
(* (close is called; whether the library releases the device when close    *)
(* itself raises is not the program's.)                                    *)
(***************************************************************************)
C1_ConnectionReleased ==
    Left =>
      \A i \in Calls("connect") :
        trace[i].ok =>
          \E j \in Calls("close") : j > i /\ trace[j].kind = trace[i].kind

\* a run whose sendText raised and whose connection was closed all the same
C1_Witness ==
    /\ pc = "done"
    /\ \E i \in Calls("sendText") : ~trace[i].ok
    /\ Calls("close") # {}

(***************************************************************************)
(* C2: when main returns, its exit code is 1 exactly when a launch was     *)
(* found and connect or sendText raised, and 0 otherwise (message sent or  *)
(* printed, or no launch found).                                           *)
(***************************************************************************)
C2_ExitCode ==
    pc = "done" =>
      /\ exit_code \in {0, 1}
      /\ exit_code = 1 <=> (launch_info.tag = "dict" /\ SendFailed)
      /\ launch_info.tag = "None" => exit_code = 0

C2_Witness == pc = "done" /\ exit_code = 1 /\ Calls("sendText") # {}

(***************************************************************************)
(* C3: a run that does not return from main ends through a fault of the    *)
(* formatter's timestamp parsing, and through no other stage.              *)
(***************************************************************************)
C3_OnlyFormatFaultsEscape ==
    /\ pc = "crashed" => fault = "format"
    /\ pc = "done" => exit_code \in {0, 1}

(***************************************************************************)
(* C4: in test mode (send_enabled false) no interface is constructed, no   *)
(* sendText and no close is called, and send_to_meshtastic returns True.   *)
(***************************************************************************)
C4_DryRun ==
    (ConfigLoaded /\ ~config.send_enabled) =>
      /\ trace = <<>>
      /\ interface = "None"
      /\ pc \notin {"connect", "sendText", "finally"}
      /\ SendLeft => (result = "True" /\ pc = "done" /\ exit_code = 0)

C4_Witness ==
    /\ SendLeft /\ ~config.send_enabled
    /\ Len(printed) = MAX_MESSAGE_LENGTH

(***************************************************************************)
(* C5: with send_enabled true, one call of send_to_meshtastic makes one    *)
(* connection attempt, of the configured transport and address; when it    *)
(* succeeds, one sendText on the configured channel follows it and comes   *)
(* before the one close; after a failure nothing is tried again.           *)
(***************************************************************************)
C5_OneConnectOneSend ==
    /\ Cardinality(Calls("connect")) <= 1
    /\ Cardinality(Calls("sendText")) <= 1
    /\ Cardinality(Calls("close")) <= 1
    /\ \A i \in Calls("connect") :
         /\ i = 1
         /\ trace[i].kind =
              (IF config.connection_type = <<"t","c","p">> THEN "TCPInterface" ELSE "SerialInterface")
         /\ trace[i].target =
              (IF config.connection_type = <<"t","c","p">> THEN config.tcp_host ELSE config.serial_port)
    /\ \A i \in Calls("sendText") :
         /\ i = 2 /\ trace[1].ok
         /\ trace[i].channel = config.channel
         /\ trace[i].kind = trace[1].kind
    /\ \A i \in Calls("close") : i = 3 /\ trace[2].op = "sendText"
    /\ (SendLeft /\ config.send_enabled) =>
         /\ Cardinality(Calls("connect")) = 1
         /\ Cardinality(Calls("sendText")) = (IF trace[1].ok THEN 1 ELSE 0)

C5_Witness ==
    /\ SendLeft /\ config.send_enabled
    /\ config.connection_type = <<"t","c","p">>
    /\ Len(trace) = 3 /\ ~trace[2].ok

(***************************************************************************)
(* C6: a fetch that fails (timeout, non-2xx status, malformed body) gives  *)
(* absence; main exits with code 0 and no device connection is opened.     *)
(***************************************************************************)
FetchFails(resp) ==
    \/ resp.status \in {"timeout", "http_error"}
    \/ resp.status = "ok" /\ resp.body \in {"not_json", "array"}
    \/ resp.status = "ok" /\ resp.body = "object" /\ resp.results.tag = "null"

C6_FetchFailureIsAbsence ==
    (pc \notin {"start", "config"} /\ fault # "load_config" /\ FetchFails(response)) =>
      /\ pc \in {"fetched", "done"}
      /\ launch_info = NoneInfo
      /\ trace = <<>>
      /\ pc = "done" => exit_code = 0

(***************************************************************************)
(* C7: the text send_to_meshtastic prints or passes to sendText is the     *)
(* formatted message itself when that has at most 200 characters, and      *)
(* otherwise its first 197 characters followed by "...", 200 in all.       *)
(***************************************************************************)
Capped(text, original) ==
    /\ Len(text) <= 200
    /\ Len(original) <= 200 => text = original
    /\ Len(original) > 200 =>
         /\ Len(text) = 200
         /\ \A i \in 1..197 : text[i] = original[i]
         /\ \A i \in 198..200 : text[i] = "."

C7_LengthCap ==
    /\ printed # <<>> => Capped(printed, format_launch_message(launch_info).value)
    /\ \A i \in Calls("sendText") :
         Capped(trace[i].text, format_launch_message(launch_info).value)

\* a message of 201 characters was sent as 200, or one of 240 printed as 200
C7_Witness ==
    \/ \E i \in Calls("sendText") :
         /\ Len(trace[i].text) = 200
         /\ Len(format_launch_message(launch_info).value) = 201
    \/ /\ Len(printed) = 200
       /\ Len(format_launch_message(launch_info).value) = 240

(***************************************************************************)
(* C8: when get_next_vandenberg_launch returns on a successful response,   *)
(* it returns the record built from the first result, in response order,   *)
(* whose pad name or location name contains one of the four keywords as a  *)
(* substring, letter case apart, and None when no result does.             *)
(***************************************************************************)
C8_FirstMatch ==
    (FetchReturned /\ IsResultList(response)) =>
      LET first == FirstMatch(response) IN
      IF first = 0 THEN launch_info = NoneInfo
      ELSE LET launch == Items(response)[first] IN
           /\ launch_info.tag = "dict"
           /\ launch_info.name =
                (IF launch.name.tag = "missing" THEN JStr(StrUnknownMission) ELSE launch.name)
           /\ launch_info.date_utc =
                (IF launch.net.tag = "missing" THEN JStr(<<>>) ELSE launch.net)
           /\ launch_info.launchpad_name =
                (IF launch.pad.name.tag = "missing" THEN JStr(StrVandenberg) ELSE launch.pad.name)

\* the second result was returned: the first did not match, and the second
\* matches by its pad name SLC-40 alone
C8_Witness ==
    /\ FetchReturned /\ IsResultList(response)
    /\ FirstMatch(response) = 2
    /\ ~NamesSite(Items(response)[2].pad.location.name)
    /\ launch_info.tag = "dict"

(***************************************************************************)
(* C9 as stated: for a response with no matching launch, fetch returns     *)
(* absence, the message of the run is "No upcoming Vandenberg launches     *)
(* found." and the exit code is 0.                                         *)
(***************************************************************************)
C9_Original ==
    (pc = "done" /\ ZeroMatches(response)) =>
      /\ launch_info = NoneInfo
      /\ message = StrNoLaunches
      /\ exit_code = 0

(***************************************************************************)
(* C9 as amended: for a response with no matching launch, fetch returns    *)
(* absence and main returns 0 having formatted, printed and sent no        *)
(* message; "No upcoming Vandenberg launches found." is what               *)
(* format_launch_message returns when it is called with absence.           *)
(***************************************************************************)
C9_NoLaunchExit ==
    /\ (pc \notin {"start", "config"} /\ fault # "load_config" /\ ZeroMatches(response)) =>
         /\ launch_info = NoneInfo
         /\ pc \in {"fetched", "done"}
         /\ message = <<>> /\ printed = <<>> /\ trace = <<>>
         /\ pc = "done" => exit_code = 0
    /\ (pc = "returned_format_launch_message" /\ unit_in = NoneInfo) =>
         unit_out = Return(StrNoLaunches)

\* main has returned on a response of two launches, none of them matching
C9_Witness ==
    /\ pc = "done" /\ ZeroMatches(response)
    /\ Len(Items(response)) = 2
    /\ exit_code = 0

(***************************************************************************)
(* C10: the payload names of a returned record are the mission name when   *)
(* it is a non-empty text, else the rocket configuration name when that is *)
(* one, else none; get_payload_info joins the names with ", " in their     *)
(* order, and gives "No payload information" for an empty list.            *)
(***************************************************************************)
RECURSIVE JoinedLen(_, _)
\* the place where name k starts in the joined text, less one
JoinedLen(names, k) ==
    IF k <= 1 THEN 0 ELSE JoinedLen(names, k - 1) + Len(names[k - 1]) + 2

IsJoined(text, names) ==
    LET n == Len(names) IN
    /\ Len(text) = JoinedLen(names, n) + Len(names[n])
    /\ \A k \in 1..n :
         /\ SubSeq(text, JoinedLen(names, k) + 1, JoinedLen(names, k) + Len(names[k])) = names[k]
         /\ k < n => /\ text[JoinedLen(names, k) + Len(names[k]) + 1] = ","
                     /\ text[JoinedLen(names, k) + Len(names[k]) + 2] = " "

PayloadLine(text, names) ==
    IF names = <<>>
    THEN text = <<"N","o"," ","p","a","y","l","o","a","d"," ","i","n","f","o","r","m","a","t","i","o","n">>
    ELSE IsJoined(text, names)

C10_PayloadNames ==
    /\ (FetchReturned /\ IsResultList(response) /\ launch_info.tag = "dict") =>
         LET launch == Items(response)[FirstMatch(response)] IN
         launch_info.payload_names =
           (IF launch.mission.name.tag = "str" /\ launch.mission.name.s # <<>>
            THEN <<launch.mission.name.s>>
            ELSE IF launch.rocket.configuration.name.tag = "str"
                    /\ launch.rocket.configuration.name.s # <<>>
            THEN <<launch.rocket.configuration.name.s>>
            ELSE <<>>)
    /\ pc = "returned_get_payload_info" => PayloadLine(unit_out, unit_in)
    /\ pc = "send" =>
         \E a \in 1..Len(message) :
           /\ message[a] = Package
           /\ PayloadLine(SubSeq(message, a + 2, Len(message)), launch_info.payload_names)

\* three names were joined
C10_Witness ==
    /\ pc = "returned_get_payload_info"
    /\ Len(unit_in) = 3
    /\ unit_in[1] # unit_in[2] /\ unit_in[2] # unit_in[3]

=============================================================================
